---- MODULE Spec2Model ----
(***************************************************************************)
(* A state-machine model of the `classify` command                         *)
(* (backend/classifier/classifier/commands/classify.py).                   *)
(*                                                                         *)
(* The command reads the table `ads` through DB.query, loads one           *)
(* classifier bundle per configured language, walks the record stream,     *)
(* scores every record whose language has a bundle and writes the scores   *)
(* back with DB.bulk_query in batches of 100, plus one final partial       *)
(* batch.  The model runs the command once and then once more with the     *)
(* same options (the re-run of a finished or aborted run), so that the     *)
(* statements about two consecutive runs can be checked.                   *)
(*                                                                         *)
(* Probabilities are modelled in halves: 0, 1, 2 stand for 0.0, 0.5, 1.0.  *)
(***************************************************************************)
EXTENDS Integers, Sequences, FiniteSets, TLC

(***************************************************************************)
(* Program constant: the batch threshold of line 57.                       *)
(***************************************************************************)
BatchSize == 100

(***************************************************************************)
(* Bounds of the model.  The table sizes explored are 0..MaxSmall and the  *)
(* sizes within MaxDelta of BatchSize and of 2 * BatchSize.                *)
(***************************************************************************)
MaxSmall == 2
MaxDelta == 1

Langs == {"en", "de", "xx"}
NoLang == "None"
LangOptions == {NoLang} \cup Langs

(***************************************************************************)
(* confs(base): the configured languages, in configuration order.  "xx"    *)
(* is a language of stored ads that has no configuration.                  *)
(***************************************************************************)
Confs == <<"en", "de">>

(***************************************************************************)
(* The stored tables the model starts from: a short pattern of rows        *)
(* repeated cyclically up to the table size; ids are the row positions.    *)
(***************************************************************************)
Row(l, h, p) == [lang |-> l, html |-> h, political_probability |-> p]

Templates ==
    { <<Row("en", "<p>b</p>", 0)>>,
      <<Row("en", "<p>b</p>", 0), Row("en", "<p>c</p>", 0), Row("xx", "<p>b</p>", 0),
        Row("en", "<p>b</p>", 0), Row("xx", "<p>c</p>", 2)>>,
      <<Row("en", "<p>a</p>", 0), Row("de", "<p>a</p>", 0), Row("en", "<p>c</p>", 1)>> }

Sizes ==
    (0..MaxSmall)
      \cup { BatchSize + d : d \in (0 - MaxDelta)..MaxDelta }
      \cup { 2 * BatchSize + d : d \in (0 - MaxDelta)..MaxDelta }

Table(t, n) ==
    [i \in 1..n |->
        LET r == t[((i - 1) % Len(t)) + 1]
        IN  [id |-> i, lang |-> r.lang, html |-> r.html,
             political_probability |-> r.political_probability]]

VARIABLES
    ads,          \* the stored table: a sequence of records, in storage order
    run,          \* "none", "first" or "second": which invocation is current
    pc,           \* position of the current invocation
    newest,       \* option --newest/--every
    lang,         \* option --lang (NoLang when absent)
    query,        \* the select statement built by lines 18-27
    length,       \* result of the count query (line 29)
    records,      \* the not yet consumed part of the record stream (line 30)
    classifiers,  \* the dict of loaded bundles, keyed by language
    updates,      \* the buffer of updates (line 40)
    idx,          \* the record index (line 42)
    out,          \* the lines printed by the current invocation
    calls,        \* the DB.bulk_query calls issued by the current invocation
    events,       \* the storage reads and bundle loads of the current invocation
    selection,    \* the ids of the rows the record query selected
    before,       \* the table as it was when the current invocation started
    first         \* what the first invocation left behind

vars == <<ads, run, pc, newest, lang, query, length, records, classifiers,
          updates, idx, out, calls, events, selection, before, first>>

----------------------------------------------------------------------------
(***************************************************************************)
(* Collaborators.                                                          *)
(***************************************************************************)

\* Variant: the restriction of line 20 is missing; newest selects like every.
BuildQueryEvery(n, l) ==
    [unscored |-> FALSE, lang |-> IF l # NoLang THEN l ELSE NoLang]

\* Variant: lines 21-22 are missing; newest mode ignores --lang.
BuildQueryNewestUnfiltered(n, l) ==
    [unscored |-> n, lang |-> IF l # NoLang /\ ~n THEN l ELSE NoLang]

\* Lines 18-27: the statement is "select * from ads", restricted to
\* political_probability = 0 in newest mode and to lang = L when `if lang`.
BuildQuery(n, l) ==
    [unscored |-> n, lang |-> IF l # NoLang THEN l ELSE NoLang]

\* The rows a statement selects.
Matches(q, r) ==
    /\ q.unscored => r.political_probability = 0
    /\ q.lang # NoLang => r.lang = q.lang

\* DB.query(query): the selected rows, in storage order, as of the call.
DBQuery(q, table) == SelectSeq(table, LAMBDA r : Matches(q, r))

\* DB.query("select count(*) ... from (query)")[0]["length"].
DBCount(q, table) == Len(DBQuery(q, table))

\* The "update ads set political_probability=:probability where id=:id"
\* statements of one call, executed in order: a row takes the probability
\* of the last update that names its id.
ApplyAll(table, ups) ==
    [i \in DOMAIN table |->
        LET hits == { k \in DOMAIN ups : ups[k].id = table[i].id }
        IN  IF hits = {} THEN table[i]
            ELSE LET k == CHOOSE x \in hits : \A y \in hits : y <= x
                 IN  [table[i] EXCEPT !.political_probability = ups[k].probability]]

\* DB.bulk_query(query, updates): every update of the call, or none.
DBBulkQuery(table, ups, ok) == IF ok THEN ApplyAll(table, ups) ELSE table

\* get_text, vectorizer.transform and predict_proba(text)[0][1] of the
\* bundle of one language: a deterministic function of the markup.
GetText(h) ==
    CASE h = "<p>a</p>" -> 0
      [] h = "<p>b</p>" -> 1
      [] h = "<p>c</p>" -> 2

PredictProba(bundle, h) ==
    IF bundle = "en" THEN GetText(h) ELSE (GetText(h) + 1) % 3

----------------------------------------------------------------------------
(***************************************************************************)
(* The command.                                                            *)
(***************************************************************************)

\* Variant: the progress line shows the index before line 44 has advanced it.
LineZeroBased(k, u, i, n) ==
    [kind |-> k, id |-> u.id, idx |-> IF k = "Classified" THEN i - 1 ELSE i,
     length |-> n, probability |-> u.probability]

\* Lines 19, 24, 39, 54-55: a printed line.
Line(k, u, i, n) ==
    [kind |-> k, id |-> u.id, idx |-> i, length |-> n, probability |-> u.probability]

NoUpdate == [id |-> 0, probability |-> 0]

\* Line 45: the record is scored when its language has a bundle.
Scoreable(record, cls) == record.lang \in DOMAIN cls

\* Variant: the update names the id that follows the record's.
ScoreNextId(record, cls) ==
    [id |-> record.id + 1,
     probability |-> PredictProba(cls[record.lang], record.html)]

\* Lines 46-51: the update of one record.
Score(record, cls) ==
    [id |-> record.id, probability |-> PredictProba(cls[record.lang], record.html)]

\* Variant: the index is advanced inside the branch of line 45.
AdvanceWhenScored(i, record, cls) == IF Scoreable(record, cls) THEN i + 1 ELSE i

\* Line 44: the index counts every record of the stream.
Advance(i, record, cls) == i + 1

\* Line 52: the update is appended to the buffer.
Buffered(ups, update) == Append(ups, update)

\* Variant: the comparison of line 57 is strict.
ShouldFlushStrict(ups) == Len(ups) > BatchSize

\* Line 57: the buffer is written when it has reached the threshold.
ShouldFlush(ups) == Len(ups) >= BatchSize

\* Variant: the bulk write is passed the buffer without its last update.
WrittenBatchShort(ups) == SubSeq(ups, 1, Len(ups) - 1)

\* Lines 58 and 62: the whole buffer is the argument of the bulk write.
WrittenBatch(ups) == ups

\* Variant: line 59 is missing; the buffer keeps what was written.
NotCleared(ups) == ups

\* Line 59: the buffer is emptied after a threshold write.
Cleared(ups) == <<>>

\* Variant: the exception of the bulk write is caught and the loop goes on.
AfterWriteSwallowed(ok) == "streaming"

\* Line 58: an exception of the bulk write is not caught; it ends the process.
AfterWrite(ok) == IF ok THEN "streaming" ELSE "aborted"

\* Line 62: the same for the final write, after which the command returns.
AfterFlush(ok) == IF ok THEN "done" ELSE "aborted"

\* A bulk_query call as the log keeps it.
Call(ups, ok) == [updates |-> ups, ok |-> ok]

Init ==
    /\ \E t \in Templates, n \in Sizes : ads = Table(t, n)
    /\ run = "none"
    /\ pc = "idle"
    /\ newest = TRUE
    /\ lang = NoLang
    /\ query = BuildQuery(TRUE, NoLang)
    /\ length = 0
    /\ records = <<>>
    /\ classifiers = <<>>
    /\ updates = <<>>
    /\ idx = 0
    /\ out = <<>>
    /\ calls = <<>>
    /\ events = <<>>
    /\ selection = <<>>
    /\ before = ads
    /\ first = [pc |-> "idle", ads |-> <<>>, selection |-> <<>>, calls |-> <<>>]

\* Lines 14-27 of a fresh process: the options, the mode line, the statement.
Start(n, l) ==
    /\ newest' = n
    /\ lang' = l
    /\ query' = BuildQuery(n, l)
    /\ out' = <<Line(IF n THEN "Running newest" ELSE "Running every", NoUpdate, 0, 0)>>
    /\ pc' = "query"
    /\ length' = 0
    /\ records' = <<>>
    /\ classifiers' = <<>>
    /\ updates' = <<>>
    /\ idx' = 0
    /\ calls' = <<>>
    /\ events' = <<>>
    /\ selection' = <<>>
    /\ before' = ads
    /\ UNCHANGED ads

\* The first invocation of the command.
Invoke(n, l) ==
    /\ run = "none"
    /\ pc = "idle"
    /\ run' = "first"
    /\ Start(n, l)
    /\ UNCHANGED first

\* The same command invoked again after the first invocation has ended.
Rerun ==
    /\ run = "first"
    /\ pc \in {"done", "aborted"}
    /\ run' = "second"
    /\ first' = [pc |-> pc, ads |-> ads, selection |-> selection, calls |-> calls]
    /\ Start(newest, lang)

\* Variant: the count of line 29 is taken over the whole table.
CountedQueryWholeTable(q) == [unscored |-> FALSE, lang |-> NoLang]

\* Line 29: the count is taken over the statement of the record query.
CountedQuery(q) == q

\* Variant: lines 29 and 30 are exchanged.
ReadOrderSwapped == <<"select", "count">>

\* Lines 29-30: the order of the two storage reads.
ReadOrder == <<"count", "select">>

\* Lines 29-30: the count query, then the record query.
RunQuery ==
    /\ pc = "query"
    /\ length' = DBCount(CountedQuery(query), ads)
    /\ records' = DBQuery(query, ads)
    /\ selection' = [i \in 1..Len(DBQuery(query, ads)) |-> DBQuery(query, ads)[i].id]
    /\ events' = events \o ReadOrder
    /\ pc' = "load"
    /\ UNCHANGED <<ads, run, newest, lang, query, classifiers, updates, idx, out,
                   calls, before, first>>

\* Lines 29-30: a storage read fails; the exception ends the process.
QueryFails ==
    /\ pc = "query"
    /\ pc' = "aborted"
    /\ UNCHANGED <<ads, run, newest, lang, query, length, records, classifiers,
                   updates, idx, out, calls, events, selection, before, first>>

\* Lines 32-37: one pass of the loop over confs: the next bundle is loaded.
LoadBundle ==
    /\ pc = "load"
    /\ Cardinality(DOMAIN classifiers) < Len(Confs)
    /\ LET language == Confs[Cardinality(DOMAIN classifiers) + 1]
       IN  /\ classifiers' = [l \in DOMAIN classifiers \cup {language} |->
                                 IF l = language THEN language ELSE classifiers[l]]
           /\ events' = Append(events, "load")
    /\ UNCHANGED <<ads, run, pc, newest, lang, query, length, records, updates, idx,
                   out, calls, selection, before, first>>

\* Variant: a failing load is caught; the loop starts with the bundles
\* loaded so far.
LoadFailsIgnored ==
    /\ pc = "load"
    /\ Cardinality(DOMAIN classifiers) < Len(Confs)
    /\ out' = Append(out, Line("found", NoUpdate, 0, length))
    /\ pc' = "streaming"
    /\ UNCHANGED <<ads, run, newest, lang, query, length, records, classifiers,
                   updates, idx, calls, events, selection, before, first>>

\* Lines 33-36: open or dill.load or get_vectorizer raises; the process ends.
LoadFails ==
    /\ pc = "load"
    /\ Cardinality(DOMAIN classifiers) < Len(Confs)
    /\ pc' = "aborted"
    /\ UNCHANGED <<ads, run, newest, lang, query, length, records, classifiers,
                   updates, idx, out, calls, events, selection, before, first>>

\* Lines 39-42: every bundle is loaded; the loop variables are set up.
BeginLoop ==
    /\ pc = "load"
    /\ Cardinality(DOMAIN classifiers) = Len(Confs)
    /\ out' = Append(out, Line("found", NoUpdate, 0, length))
    /\ updates' = <<>>
    /\ idx' = 0
    /\ pc' = "streaming"
    /\ UNCHANGED <<ads, run, newest, lang, query, length, records, classifiers,
                   calls, events, selection, before, first>>

\* Lines 43-59: one pass of the loop over the record stream.  `ok` is the
\* outcome of the bulk write, when the pass issues one.
Iterate(ok) ==
    /\ pc = "streaming"
    /\ records # <<>>
    /\ LET record == Head(records)
           update == Score(record, classifiers)
           buffer == Buffered(updates, update)
       IN  /\ records' = Tail(records)
           /\ idx' = Advance(idx, record, classifiers)
           /\ IF Scoreable(record, classifiers)
              THEN /\ out' = Append(out, Line("Classified", update,
                                              Advance(idx, record, classifiers), length))
                   /\ IF ShouldFlush(buffer)
                      THEN /\ calls' = Append(calls, Call(WrittenBatch(buffer), ok))
                           /\ ads' = DBBulkQuery(ads, WrittenBatch(buffer), ok)
                           /\ updates' = IF ok THEN Cleared(buffer) ELSE buffer
                           /\ pc' = AfterWrite(ok)
                      ELSE /\ ok
                           /\ updates' = buffer
                           /\ UNCHANGED <<ads, calls, pc>>
              ELSE /\ ok
                   /\ UNCHANGED <<ads, calls, pc, out, updates>>
    /\ UNCHANGED <<run, newest, lang, query, length, classifiers, events, selection,
                   before, first>>

\* Variant: the loop is also left right after a threshold write.
EndOfStreamEarly ==
    /\ pc = "streaming"
    /\ (records = <<>> \/ (calls # <<>> /\ updates = <<>>))
    /\ pc' = "draining"
    /\ UNCHANGED <<ads, run, newest, lang, query, length, records, classifiers,
                   updates, idx, out, calls, events, selection, before, first>>

\* Line 43: the stream is exhausted; the loop ends.
EndOfStream ==
    /\ pc = "streaming"
    /\ records = <<>>
    /\ pc' = "draining"
    /\ UNCHANGED <<ads, run, newest, lang, query, length, records, classifiers,
                   updates, idx, out, calls, events, selection, before, first>>

\* Variant: the test of line 61 is missing; the final write is always issued.
FlushUnguarded(ok) ==
    /\ pc = "draining"
    /\ calls' = Append(calls, Call(WrittenBatch(updates), ok))
    /\ ads' = DBBulkQuery(ads, WrittenBatch(updates), ok)
    /\ pc' = AfterFlush(ok)
    /\ UNCHANGED <<run, newest, lang, query, length, records, classifiers, updates,
                   idx, out, events, selection, before, first>>

\* Lines 61-62: the remainder of the buffer is written, when there is one.
Flush(ok) ==
    /\ pc = "draining"
    /\ IF updates # <<>>
       THEN /\ calls' = Append(calls, Call(WrittenBatch(updates), ok))
            /\ ads' = DBBulkQuery(ads, WrittenBatch(updates), ok)
            /\ pc' = AfterFlush(ok)
       ELSE /\ ok
            /\ pc' = "done"
            /\ UNCHANGED <<ads, calls>>
    /\ UNCHANGED <<run, newest, lang, query, length, records, classifiers, updates,
                   idx, out, events, selection, before, first>>

Next ==
    \/ \E n \in BOOLEAN, l \in LangOptions : Invoke(n, l)
    \/ Rerun
    \/ RunQuery
    \/ QueryFails
    \/ LoadBundle
    \/ LoadFails
    \/ BeginLoop
    \/ \E ok \in BOOLEAN : Iterate(ok)
    \/ EndOfStream
    \/ \E ok \in BOOLEAN : Flush(ok)

Spec == Init /\ [][Next]_vars

\* The runs in which no collaborator fails.  The command is a sequential
\* program: while a step is possible, one is taken.
NextNoFailure ==
    \/ \E n \in BOOLEAN, l \in LangOptions : Invoke(n, l)
    \/ Rerun
    \/ RunQuery
    \/ LoadBundle
    \/ BeginLoop
    \/ Iterate(TRUE)
    \/ EndOfStream
    \/ Flush(TRUE)

FairSpec == Init /\ [][NextNoFailure]_vars /\ WF_vars(NextNoFailure)

----------------------------------------------------------------------------
(***************************************************************************)
(* Vocabulary of the properties.                                           *)
(***************************************************************************)

Range(s) == { s[i] : i \in DOMAIN s }

Last(s) == s[Len(s)]

Completed == pc = "done"

\* The updates of a sequence of bulk-write calls, in the order they were sent.
RECURSIVE UpdatesOf(_)
UpdatesOf(cs) ==
    IF cs = <<>> THEN <<>> ELSE Head(cs).updates \o UpdatesOf(Tail(cs))

\* The calls that succeeded, and the ids they wrote.
Committed(cs) == SelectSeq(cs, LAMBDA c : c.ok)

CommittedIds(cs) == { u.id : u \in Range(UpdatesOf(Committed(cs))) }

Occurrences(ups, id) == Cardinality({ i \in DOMAIN ups : ups[i].id = id })

\* The progress lines printed so far.
ClassifiedLines == SelectSeq(out, LAMBDA l : l.kind = "Classified")

\* The rows of the record stream of this run, as they were stored when the
\* run started, and those of them whose language has a registered bundle.
StreamRows == { r \in Range(before) : r.id \in Range(selection) }

Registered == Range(Confs)

ScoreableRows == { r \in StreamRows : r.lang \in Registered }

SkippedRows == { r \in StreamRows : r.lang \notin Registered }

StoredProbability(table, id) ==
    LET r == CHOOSE x \in Range(table) : x.id = id IN r.political_probability

CeilDiv(a, b) == (a + b - 1) \div b

----------------------------------------------------------------------------
\* C1 - Batch boundary: a run that completes over a stream with N > 100
\* scoreable records has issued exactly ceil(N/100) bulk writes; every
\* write but the last carries exactly 100 updates and the last carries
\* N mod 100 updates, or 100 when N is a multiple of 100; skipped records
\* of the stream do not enter the count.
C1_BatchBoundary ==
    (Completed /\ Cardinality(ScoreableRows) > BatchSize) =>
        LET N == Cardinality(ScoreableRows)
        IN  /\ Len(calls) = CeilDiv(N, BatchSize)
            /\ \A k \in 1..(Len(calls) - 1) : Len(calls[k].updates) = BatchSize
            /\ Len(Last(calls).updates) =
                   IF N % BatchSize = 0 THEN BatchSize ELSE N % BatchSize

\* A completed run over more than 100 scoreable records interleaved with
\* skipped ones.
C1_Witness ==
    /\ Completed
    /\ Cardinality(ScoreableRows) > BatchSize
    /\ SkippedRows # {}
    /\ Len(calls) >= 2

\* C2 - Exactly-once scoring: after a run that completes, every scoreable
\* record of the stream has its id in exactly one update over all bulk
\* writes, every id written was streamed in this run, and no record has
\* been scored (announced) more than once.
C2_ExactlyOnce ==
    Completed =>
        LET ups == UpdatesOf(calls)
        IN  /\ \A r \in ScoreableRows : Occurrences(ups, r.id) = 1
            /\ \A u \in Range(ups) : u.id \in Range(selection)
            /\ \A c \in Range(calls) : c.ok
            /\ \A r \in StreamRows : Occurrences(ClassifiedLines, r.id) <= 1

\* A completed run whose records went out in three bulk writes.
C2_Witness ==
    /\ Completed
    /\ Len(calls) = 3
    /\ Cardinality(ScoreableRows) = Len(UpdatesOf(calls))

\* C3 - Skip semantics: taking a record whose language has no registered
\* bundle from the stream adds one to the index and changes nothing else
\* (no update, no line, no write, no error); when the run has ended such a
\* record is in no bulk write and its stored probability is what it was
\* before the run.
C3_SkipStep ==
    (pc = "streaming" /\ records # <<>> /\ Head(records).lang \notin Registered) =>
        /\ idx' = idx + 1
        /\ records' = Tail(records)
        /\ pc' = "streaming"
        /\ UNCHANGED <<updates, out, calls, ads>>

C3_SkipFrame ==
    (pc \in {"done", "aborted"}) =>
        \A r \in SkippedRows :
            /\ Occurrences(UpdatesOf(calls), r.id) = 0
            /\ Occurrences(updates, r.id) = 0
            /\ Occurrences(ClassifiedLines, r.id) = 0
            /\ StoredProbability(ads, r.id) = r.political_probability

C3_SkipSemantics == [][C3_SkipStep]_vars /\ []C3_SkipFrame

\* A completed run that skipped records, counted them in the index and
\* scored the others.
C3_Witness ==
    /\ Completed
    /\ SkippedRows # {}
    /\ idx = Len(selection)
    /\ idx > Len(ClassifiedLines)
    /\ calls # <<>>

\* C4 - Idempotence of newest mode, final state: when the command has run
\* twice in newest mode and both runs completed, every record has the
\* stored probability it had after the first run.
TwiceNewest == run = "second" /\ Completed /\ first.pc = "done" /\ newest

C4_IdempotentState ==
    TwiceNewest =>
        /\ Len(ads) = Len(first.ads)
        /\ \A i \in DOMAIN ads :
              /\ ads[i].id = first.ads[i].id
              /\ ads[i].political_probability = first.ads[i].political_probability

\* Two completed newest runs, the first of which wrote scores and the
\* second of which wrote again.
C4_Witness ==
    /\ TwiceNewest
    /\ first.calls # <<>>
    /\ calls # <<>>

\* The ids the first run wrote with the probability 0.
FirstZeroIds == { u.id : u \in { v \in Range(UpdatesOf(first.calls)) : v.probability = 0 } }

\* C5 as stated - the second of two newest runs scores zero records: no
\* update, no progress line, no bulk write.
C5_SecondRunEmpty ==
    TwiceNewest => (calls = <<>> /\ updates = <<>> /\ ClassifiedLines = <<>>)

\* C5 as amended - the second of two completed newest runs scores exactly
\* the records the first run scored with the probability 0, which the
\* selection cannot tell from unscored ones; it scores zero records, and
\* issues no bulk write, when the first run scored no record with 0.
C5_SecondRunScoresZeros ==
    TwiceNewest =>
        /\ { l.id : l \in Range(ClassifiedLines) } = FirstZeroIds
        /\ CommittedIds(calls) = FirstZeroIds
        /\ FirstZeroIds = {} => (calls = <<>> /\ updates = <<>> /\ ClassifiedLines = <<>>)

\* Two completed newest runs: the first scored some records with 0 and some
\* with another value, the second scored the former again and only them.
C5_Witness ==
    /\ TwiceNewest
    /\ FirstZeroIds # {}
    /\ CommittedIds(calls) = FirstZeroIds
    /\ CommittedIds(first.calls) # FirstZeroIds

\* C6 - Write-failure abort: once a bulk write of a run has failed the run
\* is aborted; the failed write is the last one issued, every record scored
\* is in a write issued up to then, the updates of the writes before it are
\* stored, and the records of the failed write have the probability they
\* had before the run.
C6_WriteFailureAbort ==
    (\E k \in DOMAIN calls : ~calls[k].ok) =>
        /\ pc = "aborted"
        /\ ~Last(calls).ok
        /\ \A k \in 1..(Len(calls) - 1) : calls[k].ok
        /\ Len(ClassifiedLines) = Len(UpdatesOf(calls))
        /\ \A u \in Range(UpdatesOf(Committed(calls))) :
              StoredProbability(ads, u.id) = u.probability
        /\ \A u \in Range(Last(calls).updates) :
              StoredProbability(ads, u.id) = StoredProbability(before, u.id)

\* A run aborted by its second bulk write, with records left in the stream.
C6_Witness ==
    /\ pc = "aborted"
    /\ Len(calls) >= 2
    /\ ~Last(calls).ok
    /\ records # <<>>

\* A newest run that completed after a newest run which a failing bulk
\* write aborted.
RecoveryRun ==
    /\ run = "second"
    /\ Completed
    /\ newest
    /\ first.pc = "aborted"
    /\ first.calls # <<>>
    /\ ~Last(first.calls).ok

UnscoredIds(table) ==
    { r.id : r \in { x \in Range(table) :
                        /\ x.political_probability = 0
                        /\ lang # NoLang => x.lang = lang } }

FirstScoreableIds ==
    { r.id : r \in { x \in Range(first.ads) :
                        x.id \in Range(first.selection) /\ x.lang \in Registered } }

\* C7 as stated - the recovery run streams exactly the records whose stored
\* probability is 0, streams no record the aborted run committed, and
\* leaves every scoreable record of the first selection with a committed
\* score.
C7_RecoveryNoRestream ==
    RecoveryRun =>
        /\ Range(selection) = UnscoredIds(first.ads)
        /\ Range(selection) \cap CommittedIds(first.calls) = {}
        /\ FirstScoreableIds \subseteq (CommittedIds(first.calls) \cup CommittedIds(calls))

\* C7 as amended - the recovery run streams exactly the records whose
\* stored probability is 0: of the records the aborted run committed it
\* streams again those committed with the probability 0 and no other; after
\* it every scoreable record of the first selection has a committed score.
C7_Recovery ==
    RecoveryRun =>
        /\ Range(selection) = UnscoredIds(first.ads)
        /\ \A u \in Range(UpdatesOf(Committed(first.calls))) :
              u.id \in Range(selection) <=> u.probability = 0
        /\ FirstScoreableIds \subseteq (CommittedIds(first.calls) \cup CommittedIds(calls))

\* A recovery run after an aborted run that had committed a batch holding
\* zero and non-zero scores, and had left scoreable records unwritten.
C7_Witness ==
    /\ RecoveryRun
    /\ \E u \in Range(UpdatesOf(Committed(first.calls))) : u.probability = 0
    /\ \E u \in Range(UpdatesOf(Committed(first.calls))) : u.probability # 0
    /\ ~(FirstScoreableIds \subseteq CommittedIds(first.calls))

\* C8 - Language filter: when the command runs with --lang L, in either
\* mode, every record of the stream has the language L, and a stored record
\* of another language is in no update, no progress line and no bulk write
\* and keeps its probability.
C8_LanguageFilter ==
    (lang # NoLang) =>
        /\ \A r \in Range(records) : r.lang = lang
        /\ (pc \in {"load", "done", "aborted"}) =>
              \A r \in Range(before) :
                  r.lang # lang =>
                      /\ r.id \notin Range(selection)
                      /\ Occurrences(updates, r.id) = 0
                      /\ Occurrences(UpdatesOf(calls), r.id) = 0
                      /\ Occurrences(ClassifiedLines, r.id) = 0
                      /\ StoredProbability(ads, r.id) = r.political_probability

\* A completed newest run restricted to "en" that wrote scores and left an
\* unscored record of the registered language "de" alone.
C8_Witness ==
    /\ Completed
    /\ newest
    /\ lang = "en"
    /\ calls # <<>>
    /\ \E r \in Range(ads) : r.lang = "de" /\ r.political_probability = 0

\* C9 - Configuration error: a run aborted while a bundle was still to be
\* loaded has consumed no record, buffered no update, printed no progress
\* line, issued no bulk write and left the table as it was; and a run that
\* has started on the stream holds the bundle of every configured language.
C9_ConfigErrorFatal ==
    /\ (pc = "aborted" /\ Cardinality(DOMAIN classifiers) < Len(Confs)) =>
          /\ idx = 0
          /\ updates = <<>>
          /\ calls = <<>>
          /\ ClassifiedLines = <<>>
          /\ ads = before
          /\ Len(records) = Len(selection)
    /\ (pc \in {"streaming", "draining", "done"} \/ idx > 0 \/ calls # <<>>) =>
          DOMAIN classifiers = Registered

\* A run aborted by the failure of the second bundle, with the first bundle
\* loaded and records waiting in the stream.
C9_Witness ==
    /\ pc = "aborted"
    /\ DOMAIN classifiers = {"en"}
    /\ records # <<>>

IsPrefix(s, t) == Len(s) <= Len(t) /\ \A i \in DOMAIN s : s[i] = t[i]

Loads == [i \in 1..Len(Confs) |-> "load"]

\* C10 as stated - the storage reads come after the loading: whenever the
\* count query or the record query has been issued, every bundle is loaded.
C10_LoadBeforeQuery ==
    (\E i \in DOMAIN events : events[i] \in {"count", "select"}) =>
        DOMAIN classifiers = Registered

\* C10 as amended - the driver issues the count query and the record query
\* first and loads the bundles after them; it iterates only when every
\* bundle is loaded, and the write of the remainder is the last thing a
\* completed run does, after the stream is exhausted.
C10_DriverOrder ==
    /\ IsPrefix(events, <<"count", "select">> \o Loads)
    /\ (pc \in {"streaming", "draining", "done"} \/ idx > 0 \/ calls # <<>>) =>
          events = <<"count", "select">> \o Loads
    /\ (pc \in {"draining", "done"}) => records = <<>>
    /\ (Completed /\ updates # <<>>) =>
          (calls # <<>> /\ Last(calls).updates = updates)

\* A completed run whose last act was the write of a remainder, after two
\* threshold writes.
C10_Witness ==
    /\ Completed
    /\ Len(calls) = 3
    /\ Last(calls).updates = updates
    /\ events = <<"count", "select">> \o Loads

\* C11 - Count/stream consistency: the total of the count query is the
\* number of records of the stream; a completed run ends with the index
\* equal to the total, and every progress line carries that total and an
\* index that does not exceed it.
C11_CountStream ==
    /\ (pc \in {"load", "streaming", "draining", "done"}) =>
          /\ length = Len(selection)
          /\ idx + Len(records) = length
    /\ Completed => idx = length
    /\ \A i \in DOMAIN out :
          out[i].kind = "Classified" =>
              (out[i].length = length /\ out[i].idx <= out[i].length)

\* A completed filtered run over more than 100 records of a table that
\* holds other records too, with skipped records counted in the index.
C11_Witness ==
    /\ Completed
    /\ length > BatchSize
    /\ length < Len(ads)
    /\ idx = length
    /\ Len(ClassifiedLines) < idx
    /\ Last(ClassifiedLines).idx = length

\* The 1-based position in the stream of the record about to be taken.
NextPosition == (Len(selection) - Len(records)) + 1

\* C12 - Progress reporting: taking a scoreable record prints exactly one
\* progress line, with the id of the record and its 1-based position in
\* the stream (skipped records counted); taking a skipped record prints
\* none, and no other step prints one; the indices of successive progress
\* lines are strictly increasing.
C12_ProgressStep ==
    /\ (pc = "streaming" /\ records # <<>> /\ Head(records).lang \in Registered) =>
          /\ Len(out') = Len(out) + 1
          /\ out' = Append(out, Last(out'))
          /\ Last(out').kind = "Classified"
          /\ Last(out').id = Head(records).id
          /\ Last(out').idx = NextPosition
    /\ (pc = "streaming" /\ records # <<>> /\ Head(records).lang \notin Registered) =>
          out' = out
    /\ (pc # "streaming" /\ run' = run) =>
          Len(SelectSeq(out', LAMBDA l : l.kind = "Classified")) = Len(ClassifiedLines)

C12_Increasing ==
    \A k \in 1..(Len(ClassifiedLines) - 1) :
        ClassifiedLines[k].idx < ClassifiedLines[k + 1].idx

C12_Progress == [][C12_ProgressStep]_vars /\ []C12_Increasing

\* A completed run whose progress lines jump over the index of a skipped
\* record.
C12_Witness ==
    /\ Completed
    /\ SkippedRows # {}
    /\ Len(ClassifiedLines) = Cardinality(ScoreableRows)
    /\ \E k \in 1..(Len(ClassifiedLines) - 1) :
          ClassifiedLines[k + 1].idx > ClassifiedLines[k].idx + 1

\* The ids of the rows the options of the run ask for, over the table as it
\* was when the run started.
WantedIds ==
    { r.id : r \in { x \in Range(before) :
                        /\ newest => x.political_probability = 0
                        /\ lang # NoLang => x.lang = lang } }

\* C13 - Selection modes: in newest mode the stream holds exactly the
\* records whose stored probability is 0, in every mode all records, in both
\* restricted to the language filter when one is given; so a newest run
\* scores and writes no record whose stored probability was not 0.
C13_SelectionModes ==
    (pc \in {"load", "done", "aborted"} /\ events # <<>>) =>
        /\ Range(selection) = WantedIds
        /\ Len(selection) = Cardinality(WantedIds)
        /\ newest =>
              \A r \in Range(before) :
                  r.political_probability # 0 =>
                      /\ Occurrences(ClassifiedLines, r.id) = 0
                      /\ Occurrences(UpdatesOf(calls), r.id) = 0
                      /\ StoredProbability(ads, r.id) = r.political_probability

\* A completed every run that scored again a record stored with a non-zero
\* probability and changed it.
C13_Witness ==
    /\ Completed
    /\ ~newest
    /\ \E r \in Range(before) :
          /\ r.political_probability # 0
          /\ r.id \in CommittedIds(calls)
          /\ StoredProbability(ads, r.id) # r.political_probability

\* C14 - Bounded buffer: the buffer never holds more than 100 updates, and
\* it holds fewer than 100 whenever the loop is about to take the next
\* record, whatever the size of the table.
C14_BoundedBuffer ==
    /\ Len(updates) <= BatchSize
    /\ pc = "streaming" => Len(updates) < BatchSize

\* The loop is about to take a record with 99 updates buffered, after a
\* first threshold write, over a table of more than 100 rows.
C14_Witness ==
    /\ pc = "streaming"
    /\ records # <<>>
    /\ Len(updates) = BatchSize - 1
    /\ calls # <<>>
    /\ Len(ads) > BatchSize

\* C15 - Final flush and no empty write: the step that ends the run writes
\* a non-empty buffer with exactly one bulk write and writes nothing for an
\* empty one; every bulk write carries between 1 and 100 updates; a
\* completed run without scoreable records has issued no bulk write; and
\* what the buffer of a completed run holds has been written by its last
\* bulk write.
C15_FlushStep ==
    (pc = "draining" /\ pc' = "done") =>
        /\ updates # <<>> => calls' = Append(calls, Call(updates, TRUE))
        /\ updates = <<>> => (calls' = calls /\ ads' = ads)

C15_Writes ==
    /\ \A k \in DOMAIN calls :
          Len(calls[k].updates) >= 1 /\ Len(calls[k].updates) <= BatchSize
    /\ (Completed /\ ScoreableRows = {}) => calls = <<>>
    /\ (Completed /\ updates # <<>>) =>
          (calls # <<>> /\ Last(calls) = Call(updates, TRUE))
    /\ Completed => Len(UpdatesOf(Committed(calls))) = Len(ClassifiedLines)

C15_FinalFlush == [][C15_FlushStep]_vars /\ []C15_Writes

\* A completed run that streamed records, scored none of them and issued no
\* bulk write.
C15_Witness ==
    /\ Completed
    /\ selection # <<>>
    /\ ScoreableRows = {}
    /\ calls = <<>>

\* C16 - Frame of a run: a step of a run changes no stored field but
\* political_probability, and that only of records named in the bulk write
\* the step issues; when the run has ended, every record has the id, lang
\* and html it started with, a record whose probability differs is a
\* scoreable record of the stream, and a record outside the selection is
\* unchanged in every field.
C16_WriteStep ==
    (ads' # ads) =>
        /\ Len(calls') = Len(calls) + 1
        /\ Len(ads') = Len(ads)
        /\ \A i \in DOMAIN ads :
              /\ ads'[i].id = ads[i].id
              /\ ads'[i].lang = ads[i].lang
              /\ ads'[i].html = ads[i].html
              /\ ads'[i].political_probability # ads[i].political_probability =>
                    \E u \in Range(Last(calls').updates) :
                        u.id = ads[i].id /\ u.probability = ads'[i].political_probability

C16_RunFrame ==
    (pc \in {"done", "aborted"}) =>
        /\ Len(ads) = Len(before)
        /\ \A i \in DOMAIN ads :
              /\ ads[i].id = before[i].id
              /\ ads[i].lang = before[i].lang
              /\ ads[i].html = before[i].html
              /\ ads[i].political_probability # before[i].political_probability =>
                    /\ before[i].id \in Range(selection)
                    /\ before[i].lang \in Registered
                    /\ Occurrences(ClassifiedLines, ads[i].id) = 1
              /\ before[i].id \notin Range(selection) => ads[i] = before[i]

C16_Frame == [][C16_WriteStep]_vars /\ []C16_RunFrame

\* A completed newest run restricted to one language that changed
\* probabilities of its selection and left records outside it, scored ones
\* and ones of another language, as they were.
C16_Witness ==
    /\ Completed
    /\ newest
    /\ lang = "de"
    /\ ads # before
    /\ \E r \in Range(before) : r.political_probability # 0 /\ r \in Range(ads)
    /\ \E r \in Range(before) : r.lang = "en" /\ r \in Range(ads)

\* The phases of a run.
Phases == <<"start", "streaming", "draining", "done">>

Phase(p) ==
    CASE p \in {"idle", "query", "load"} -> 1
      [] p = "streaming" -> 2
      [] p = "draining" -> 3
      [] p = "done" -> 4
      [] OTHER -> 0

\* C17 - Linear traversal and termination: within a run the phase stays or
\* moves to the next of start, streaming, draining, done; the loop takes
\* the records of the stream one by one in order, each once, and a
\* completed run has taken them all; and, no collaborator failing, every
\* run that has started reaches done.
C17_PhaseStep ==
    (run' = run) =>
        /\ Phase(pc) # 0 /\ Phase(pc') # 0
        /\ Phase(pc') = Phase(pc) \/ Phase(pc') = Phase(pc) + 1
        /\ (pc = "streaming" /\ records # <<>>) =>
              (records' = Tail(records) /\ pc' = "streaming")
        /\ pc # "streaming" => records' = records \/ pc = "query"

C17_Consumes ==
    /\ (pc \in {"streaming", "draining", "done"}) =>
          /\ idx + Len(records) = Len(selection)
          /\ \A i \in DOMAIN records : records[i].id = selection[idx + i]
    /\ (pc \in {"draining", "done"}) => (records = <<>> /\ idx = Len(selection))

C17_Terminates == (pc = "query") ~> Completed

C17_Linear == [][C17_PhaseStep]_vars /\ []C17_Consumes /\ C17_Terminates

\* A second run completed after a completed first one, having taken a
\* stream of more than 100 records to its end.
C17_Witness ==
    /\ Completed
    /\ run = "second"
    /\ first.pc = "done"
    /\ Len(selection) > BatchSize
    /\ idx = Len(selection)
    /\ records = <<>>

\* The records announced by a progress line, and the updates committed.
Announced == Len(ClassifiedLines)

CommittedCount == Len(UpdatesOf(Committed(calls)))

====
